---- MODULE Spec2Model ----
(***************************************************************************)
(* Model of the VisualMatmul scheduling engine (src/src/iterators.py).     *)
(* A scheduler object is the record `iterator`; the Python generator       *)
(* returned by run() is the record `generator`, holding the suspension     *)
(* point (pc), the position in the flattened loop nest (pos) and the       *)
(* local lists that are live across a yield.  One action per strategy      *)
(* performs one next() on the generator: it runs the body from the         *)
(* suspension point to the next yield, or to the end of the function.      *)
(* `steps` is the list of IterationStep values the consumer has pulled,    *)
(* `raised` the exception a constructor or a next() has raised, `call` the *)
(* arguments of the constructor call that was made, `window` the playback  *)
(* state of the driver (src/src/main.py) and `visualizer` the cube colours *)
(* of its Visualizer3D (src/src/visualizer.py).  Timer intervals are not   *)
(* modelled: a timer tick may happen at any moment the timer is active.    *)
(***************************************************************************)
EXTENDS Integers, Sequences, FiniteSets, TLC

VARIABLES iterator, generator, steps, raised, call, window, visualizer

vars == <<iterator, generator, steps, raised, call, window, visualizer>>

\* ---- bounds of the explored parameter space ----
MaxM == 4
MaxN == 5
MaxK == 3
MaxArray == 4
MaxTile == 3
MaxMicro == 2
MaxArg == 2
MaxOrderLen == 4
MaxSpin == 2
MaxViewDim == 2
MaxCubes == 4

\* ---- Python helpers ----
Min(a, b) == IF a < b THEN a ELSE b

\* len(range(lo, hi))
Span(lo, hi) == IF hi > lo THEN hi - lo ELSE 0

\* a // b, rounding toward minus infinity, for b # 0
FloorDiv(a, b) == IF b > 0 THEN a \div b ELSE (0 - a) \div (0 - b)

\* list(range(0, stop, step)) for step # 0
RangeStep(stop, step) ==
    LET count == IF step > 0
                 THEN (IF stop > 0 THEN (stop + step - 1) \div step ELSE 0)
                 ELSE (IF stop < 0 THEN ((0 - stop) + (0 - step) - 1) \div (0 - step) ELSE 0)
    IN [n \in 1..count |-> (n - 1) * step]

\* [(i, j, k) for i in range(i0, i1) for j in range(j0, j1) for k in range(k0, k1)]
Box(i0, i1, j0, j1, k0, k1) ==
    LET nj == Span(j0, j1)
        nk == Span(k0, k1)
    IN [n \in 1..(Span(i0, i1) * nj * nk) |->
            <<i0 + ((n - 1) \div (nj * nk)),
              j0 + (((n - 1) \div nk) % nj),
              k0 + ((n - 1) % nk)>>]

\* [(i, j) for i in range(m) for j in range(n)]
Pairs(m, n) == [q \in 1..(Span(0, m) * Span(0, n)) |-> <<(q - 1) \div n, (q - 1) % n>>]

\* the elements of a list, as a set
Elems(s) == {s[n] : n \in DOMAIN s}

\* ---- IterationStep ----
IterationStep(active, completed, description) ==
    [active |-> active, completed |-> completed, description |-> description]

NoStep == IterationStep(<<>>, <<>>, [text |-> "StopIteration"])

\* a generator frame: suspension point, loop position, live locals
Frame(pc, pos, active_coords, completed_coords) ==
    [pc |-> pc, pos |-> pos, active_coords |-> active_coords,
     completed_coords |-> completed_coords]

NewGenerator == Frame("start", 0, <<>>, <<>>)

\* the outcome of one next(): the new frame and the step yielded, if any
Yield(frame, step) == [gen |-> frame, yielded |-> TRUE, step |-> step, raised |-> "none"]
StopIteration ==
    [gen |-> Frame("done", 0, <<>>, <<>>), yielded |-> FALSE, step |-> NoStep,
     raised |-> "none"]

\* an exception escapes the generator body: the generator is finished
Raise(exc) ==
    [gen |-> Frame("done", 0, <<>>, <<>>), yielded |-> FALSE, step |-> NoStep,
     raised |-> exc]

\* the outcome of a constructor call: the new object, or the exception raised
None == [cls |-> "None"]
Created(obj) == [obj |-> obj, raised |-> "none"]
Failed(exc) == [obj |-> None, raised |-> exc]

\* ---- NaiveIterator ----
Orders == {<<"i", "j", "k">>, <<"i", "k", "j">>, <<"j", "i", "k">>,
           <<"j", "k", "i">>, <<"k", "i", "j">>, <<"k", "j", "i">>}

NaiveIterator(M, N, K, order) ==
    [cls |-> "NaiveIterator", M |-> M, N |-> N, K |-> K, order |-> order]

\* str.lower() on the symbols that occur
LowerChar(ch) ==
    IF ch = "I" THEN "i" ELSE IF ch = "J" THEN "j" ELSE IF ch = "K" THEN "k" ELSE ch

Lower(str) == [n \in DOMAIN str |-> LowerChar(str[n])]

\* variant: only the set of symbols is validated, not the length
NaiveNewSetOnly(M, N, K, order) ==
    IF Elems(Lower(order)) # {"i", "j", "k"}
    THEN Failed("ValueError")
    ELSE Created(NaiveIterator(M, N, K, Lower(order)))

\* NaiveIterator(M, N, K, order): the order is lower-cased, then validated
NaiveNew(M, N, K, order) ==
    IF Elems(Lower(order)) # {"i", "j", "k"} \/ Len(Lower(order)) # 3
    THEN Failed("ValueError")
    ELSE Created(NaiveIterator(M, N, K, Lower(order)))

NaiveDims(self) == [c \in {"i", "j", "k"} |->
    IF c = "i" THEN self.M ELSE IF c = "j" THEN self.N ELSE self.K]

\* the (idx0, idx1, idx2) of the three nested loops, in iteration order
NaiveLoop(self) ==
    Box(0, NaiveDims(self)[self.order[1]], 0, NaiveDims(self)[self.order[2]],
        0, NaiveDims(self)[self.order[3]])

\* variant: the triple is reported in loop order instead of as (i, j, k)
NaiveCoordLoopOrder(order, idx) == <<idx[1], idx[2], idx[3]>>

\* coord = (current_indices['i'], current_indices['j'], current_indices['k'])
NaiveCoord(order, idx) ==
    LET current_indices == [c \in {"i", "j", "k"} |->
            idx[CHOOSE p \in 1..3 : order[p] = c]]
    IN <<current_indices["i"], current_indices["j"], current_indices["k"]>>

NaiveActiveStep(coord) ==
    IterationStep(<<coord>>, <<>>, [text |-> "Calc", coord |-> coord])

\* variant: the second step of a pair still lists the coordinate as active
NaiveDoneStepStillActive(coord) ==
    IterationStep(<<coord>>, <<coord>>, [text |-> "Done"])

NaiveDoneStep(coord) ==
    IterationStep(<<>>, <<coord>>, [text |-> "Done"])

\* enter loop iteration p, or fall off the end of the loops
NaiveEnter(self, p) ==
    IF p > Len(NaiveLoop(self))
    THEN StopIteration
    ELSE LET coord == NaiveCoord(self.order, NaiveLoop(self)[p])
         IN Yield(Frame("yield1", p, <<coord>>, <<>>), NaiveActiveStep(coord))

NaiveRun(self, g) ==
    CASE g.pc = "start"  -> NaiveEnter(self, 1)
      [] g.pc = "yield1" -> Yield(Frame("yield2", g.pos, g.active_coords, <<>>),
                                  NaiveDoneStep(g.active_coords[1]))
      [] g.pc = "yield2" -> NaiveEnter(self, g.pos + 1)
      [] OTHER -> StopIteration

\* ---- TiledIterator ----
TiledIterator(M, N, K, tile_size, tile_k) ==
    [cls |-> "TiledIterator", M |-> M, N |-> N, K |-> K,
     tile_size |-> tile_size, tile_k |-> tile_k]

TiledNew(M, N, K, tile_size, tile_k) == Created(TiledIterator(M, N, K, tile_size, tile_k))

\* variant: only whole tiles are visited (extent // tile instead of a stepped range)
TiledLoopWholeTiles(self) ==
    LET ni == self.M \div self.tile_size
        nj == self.N \div self.tile_size
        nk == self.K \div self.tile_k
        ix == Box(0, ni, 0, nj, 0, nk)
    IN [n \in DOMAIN ix |->
            <<ix[n][1] * self.tile_size, ix[n][2] * self.tile_size, ix[n][3] * self.tile_k>>]

\* variant: the k loop advances by 1 instead of tile_k
TiledLoopUnitK(self) ==
    LET ib == RangeStep(self.M, self.tile_size)
        jb == RangeStep(self.N, self.tile_size)
        kb == IF ib = <<>> \/ jb = <<>> THEN <<>> ELSE RangeStep(self.K, 1)
        ix == Box(1, Len(ib) + 1, 1, Len(jb) + 1, 1, Len(kb) + 1)
    IN [n \in DOMAIN ix |-> <<ib[ix[n][1]], jb[ix[n][2]], kb[ix[n][3]]>>]

\* variant: the j tiles are the outer loop and the i tiles the middle loop
TiledLoopJOuter(self) ==
    LET ib == RangeStep(self.M, self.tile_size)
        jb == RangeStep(self.N, self.tile_size)
        kb == IF ib = <<>> \/ jb = <<>> THEN <<>> ELSE RangeStep(self.K, self.tile_k)
        ix == Box(1, Len(jb) + 1, 1, Len(ib) + 1, 1, Len(kb) + 1)
    IN [n \in DOMAIN ix |-> <<ib[ix[n][2]], jb[ix[n][1]], kb[ix[n][3]]>>]

\* the (i_base, j_base, k_base) of the three nested loops, in iteration order
TiledLoop(self) ==
    LET ib == RangeStep(self.M, self.tile_size)
        jb == RangeStep(self.N, self.tile_size)
        kb == IF ib = <<>> \/ jb = <<>> THEN <<>> ELSE RangeStep(self.K, self.tile_k)
        ix == Box(1, Len(ib) + 1, 1, Len(jb) + 1, 1, Len(kb) + 1)
    IN [n \in DOMAIN ix |-> <<ib[ix[n][1]], jb[ix[n][2]], kb[ix[n][3]]>>]

TiledActive(self, base) ==
    Box(base[1], Min(base[1] + self.tile_size, self.M),
        base[2], Min(base[2] + self.tile_size, self.N),
        base[3], Min(base[3] + self.tile_k, self.K))

\* variant: the flush step is emitted after the backlog has been cleared
TiledFlushCleared(completed_coords) ==
    IF completed_coords # <<>>
    THEN Yield(Frame("flush", 0, <<>>, <<>>),
               IterationStep(<<>>, <<>>, [text |-> "Done"]))
    ELSE StopIteration

\* after the loops: flush the backlog
TiledFlush(completed_coords) ==
    IF completed_coords # <<>>
    THEN Yield(Frame("flush", 0, <<>>, completed_coords),
               IterationStep(<<>>, completed_coords, [text |-> "Done"]))
    ELSE StopIteration

RECURSIVE TiledScan(_, _, _)
TiledScan(self, p, completed_coords) ==
    IF p > Len(TiledLoop(self))
    THEN TiledFlush(completed_coords)
    ELSE LET active_coords == TiledActive(self, TiledLoop(self)[p])
         IN IF active_coords # <<>>
            THEN Yield(Frame("yield1", p, active_coords, completed_coords),
                       IterationStep(active_coords, completed_coords,
                                     [text |-> "Processing Tile"]))
            ELSE TiledScan(self, p + 1, completed_coords)

\* range() with a zero step raises ValueError when the loop header is reached
TiledRangeError(self) ==
    \/ self.tile_size = 0
    \/ /\ self.tile_k = 0
       /\ RangeStep(self.M, self.tile_size) # <<>>
       /\ RangeStep(self.N, self.tile_size) # <<>>

TiledRun(self, g) ==
    CASE g.pc = "start"  -> IF TiledRangeError(self)
                            THEN Raise("ValueError")
                            ELSE TiledScan(self, 1, <<>>)
      [] g.pc = "yield1" -> TiledScan(self, g.pos + 1, g.active_coords)
      [] OTHER -> StopIteration

\* ---- SystolicIterator ----
SystolicIterator(M, N, K) ==
    [cls |-> "SystolicIterator", M |-> M, N |-> N, K |-> K]

SystolicNew(M, N, K) == Created(SystolicIterator(M, N, K))

\* variant: the time loop stops one wavefront early
SystolicMaxTimeShort(self) == (self.M - 1) + (self.N - 1) + (self.K - 1) - 1

SystolicMaxTime(self) == (self.M - 1) + (self.N - 1) + (self.K - 1)

\* the wavefront of an m x n x k box at local time t, translated by (i_base, j_base)
Wavefront(i_base, j_base, m, n, k, t) ==
    LET hit == SelectSeq(Pairs(m, n),
                         LAMBDA p : 0 <= t - p[1] - p[2] /\ t - p[1] - p[2] < k)
    IN [q \in DOMAIN hit |->
            <<i_base + hit[q][1], j_base + hit[q][2], t - hit[q][1] - hit[q][2]>>]

\* variant: the reduction bound is tested as k <= K
SystolicActiveInclusive(self, t) == Wavefront(0, 0, self.M, self.N, self.K + 1, t)

SystolicActive(self, t) == Wavefront(0, 0, self.M, self.N, self.K, t)

SystolicFlush(completed_coords) ==
    IF completed_coords # <<>>
    THEN Yield(Frame("flush", 0, <<>>, completed_coords),
               IterationStep(<<>>, completed_coords, [text |-> "Done"]))
    ELSE StopIteration

\* resume the loop `for t in range(max_time + 1)` at t
RECURSIVE SystolicScan(_, _, _)
SystolicScan(self, t, completed_coords) ==
    IF t > SystolicMaxTime(self)
    THEN SystolicFlush(completed_coords)
    ELSE LET active_coords == SystolicActive(self, t)
         IN IF active_coords # <<>>
            THEN Yield(Frame("yield1", t, active_coords, completed_coords),
                       IterationStep(active_coords, completed_coords,
                                     [text |-> "Systolic Wavefront t=", t |-> t]))
            ELSE SystolicScan(self, t + 1, completed_coords)

\* variant: the backlog is extended by the active list instead of replaced
SystolicRunAccumulate(self, g) ==
    CASE g.pc = "start"  -> SystolicScan(self, 0, <<>>)
      [] g.pc = "yield1" -> SystolicScan(self, g.pos + 1, g.completed_coords \o g.active_coords)
      [] OTHER -> StopIteration

SystolicRun(self, g) ==
    CASE g.pc = "start"  -> SystolicScan(self, 0, <<>>)
      [] g.pc = "yield1" -> SystolicScan(self, g.pos + 1, g.active_coords)
      [] OTHER -> StopIteration

\* ---- BlockedSystolicIterator ----
BlockedSystolicIterator(M, N, K, array_size) ==
    [cls |-> "BlockedSystolicIterator", M |-> M, N |-> N, K |-> K,
     array_size |-> array_size]

BlockedNew(M, N, K, array_size) == Created(BlockedSystolicIterator(M, N, K, array_size))

\* the concatenation of a list of lists
RECURSIVE Flatten(_)
Flatten(ss) == IF ss = <<>> THEN <<>> ELSE Head(ss) \o Flatten(Tail(ss))

\* extent of a block along one axis, clipped at the boundary
Clip(base, S, limit) == Min(base + S, limit) - base

\* blocks of an m x n output plane, i-block outer, j-block inner, full reduction k
Partition(m, n, k, S) ==
    LET ib == RangeStep(m, S)
        jb == RangeStep(n, S)
        ix == Pairs(Len(ib), Len(jb))
    IN [q \in DOMAIN ix |->
            [i_base |-> ib[ix[q][1] + 1], j_base |-> jb[ix[q][2] + 1],
             M_curr |-> Clip(ib[ix[q][1] + 1], S, m),
             N_curr |-> Clip(jb[ix[q][2] + 1], S, n),
             K_curr |-> k]]

\* the start-time table: current_start_time grows by `offset` per block
RECURSIVE Schedule(_, _, _)
Schedule(blocks, current_start_time, offset) ==
    IF blocks = <<>>
    THEN <<>>
    ELSE <<[block |-> Head(blocks), start_time |-> current_start_time]>>
         \o Schedule(Tail(blocks), current_start_time + offset, offset)

Duration(b) == (b.M_curr - 1) + (b.N_curr - 1) + (b.K_curr - 1)

\* variant: the loop range ends at the last block's last wavefront, without the drain cycle
MaxGlobalTimeNoDrain(block_schedules) ==
    LET last_block == block_schedules[Len(block_schedules)]
    IN last_block.start_time + Duration(last_block.block)

\* max_global_time, from the last block of a non-empty start-time table
MaxGlobalTime(block_schedules) ==
    LET last_block == block_schedules[Len(block_schedules)]
    IN last_block.start_time + Duration(last_block.block) + 1

\* the coordinates one scheduled block contributes at global time t
BlockActive(schedule, t) ==
    LET b == schedule.block
        local_t == t - schedule.start_time
    IN IF 0 <= local_t /\ local_t <= Duration(b)
       THEN Wavefront(b.i_base, b.j_base, b.M_curr, b.N_curr, b.K_curr, local_t)
       ELSE <<>>

\* the coordinates of all scheduled blocks at global time t, in table order
ScheduleActive(block_schedules, t) ==
    Flatten([q \in DOMAIN block_schedules |-> BlockActive(block_schedules[q], t)])

\* variant: each block starts only after the previous block's whole array has drained, plus one idle cycle
BlockedSchedulesLateStart(self) ==
    Schedule(Partition(self.M, self.N, self.K, self.array_size), 0,
             self.K + 2 * self.array_size)

\* variant: each block starts one cycle before the previous block's PE(0,0) has drained
BlockedSchedulesEarlyStart(self) ==
    Schedule(Partition(self.M, self.N, self.K, self.array_size), 0, self.K - 1)

BlockedSchedules(self) ==
    Schedule(Partition(self.M, self.N, self.K, self.array_size), 0, self.K)

BlockedActive(self, t) == ScheduleActive(BlockedSchedules(self), t)

\* active_blocks_desc: the bases of the blocks that contribute at time t
BlockedDesc(self, t) ==
    LET live == SelectSeq(BlockedSchedules(self), LAMBDA sc : BlockActive(sc, t) # <<>>)
    IN [q \in DOMAIN live |-> <<live[q].block.i_base, live[q].block.j_base>>]

\* resume the loop `for t in range(max_global_time + 1)` at t
RECURSIVE BlockedScan(_, _, _)
BlockedScan(self, t, completed_coords) ==
    IF t > MaxGlobalTime(BlockedSchedules(self))
    THEN StopIteration
    ELSE LET active_coords == BlockedActive(self, t)
         IN IF active_coords # <<>>
            THEN Yield(Frame("yield1", t, active_coords, completed_coords),
                       IterationStep(active_coords, completed_coords,
                                     [text |-> "Global t=", t |-> t,
                                      blocks |-> BlockedDesc(self, t)]))
            ELSE IF completed_coords # <<>>
            THEN Yield(Frame("drain", t, <<>>, completed_coords),
                       IterationStep(<<>>, completed_coords, [text |-> "Finishing..."]))
            ELSE BlockedScan(self, t + 1, completed_coords)

BlockedRun(self, g) ==
    CASE g.pc = "start"  -> IF self.array_size = 0
                            THEN Raise("ValueError")
                            ELSE IF BlockedSchedules(self) = <<>>
                            THEN StopIteration
                            ELSE BlockedScan(self, 0, <<>>)
      [] g.pc = "yield1" -> BlockedScan(self, g.pos + 1, g.active_coords)
      [] g.pc = "drain"  -> BlockedScan(self, g.pos + 1, <<>>)
      [] OTHER -> StopIteration

\* ---- TensorSystolicIterator ----
TensorSystolicIterator(M, N, K, array_size, micro_size) ==
    [cls |-> "TensorSystolicIterator", M |-> M, N |-> N, K |-> K,
     array_size |-> array_size, micro_size |-> micro_size]

TensorNew(M, N, K, array_size, micro_size) ==
    Created(TensorSystolicIterator(M, N, K, array_size, micro_size))

\* (extent + micro - 1) // micro
Macro(extent, micro) == FloorDiv(extent + micro - 1, micro)

\* variant: the start-time offset is the fine K instead of K_macro
TensorSchedulesFineOffset(self) ==
    Schedule(Partition(Macro(self.M, self.micro_size[1]),
                       Macro(self.N, self.micro_size[2]),
                       Macro(self.K, self.micro_size[3]), self.array_size),
             0, self.K)

TensorSchedules(self) ==
    LET K_macro == Macro(self.K, self.micro_size[3])
    IN Schedule(Partition(Macro(self.M, self.micro_size[1]),
                          Macro(self.N, self.micro_size[2]),
                          K_macro, self.array_size),
                0, K_macro)

\* variant: the micro tile is not truncated at the true shape
MicroTileUnclipped(self, macro) ==
    LET M2 == self.micro_size[1]
        N2 == self.micro_size[2]
        K2 == self.micro_size[3]
    IN Box(macro[1] * M2, (macro[1] + 1) * M2,
           macro[2] * N2, (macro[2] + 1) * N2,
           macro[3] * K2, (macro[3] + 1) * K2)

\* the fine coordinates of one macro coordinate, truncated at the true shape
MicroTile(self, macro) ==
    LET M2 == self.micro_size[1]
        N2 == self.micro_size[2]
        K2 == self.micro_size[3]
    IN Box(macro[1] * M2, Min((macro[1] + 1) * M2, self.M),
           macro[2] * N2, Min((macro[2] + 1) * N2, self.N),
           macro[3] * K2, Min((macro[3] + 1) * K2, self.K))

TensorActive(self, t) ==
    LET macros == ScheduleActive(TensorSchedules(self), t)
    IN Flatten([q \in DOMAIN macros |-> MicroTile(self, macros[q])])

RECURSIVE TensorScan(_, _, _)
TensorScan(self, t, completed_coords) ==
    IF t > MaxGlobalTime(TensorSchedules(self))
    THEN StopIteration
    ELSE LET active_coords == TensorActive(self, t)
         IN IF active_coords # <<>>
            THEN Yield(Frame("yield1", t, active_coords, completed_coords),
                       IterationStep(active_coords, completed_coords,
                                     [text |-> "Tensor Core Step t=", t |-> t]))
            ELSE IF completed_coords # <<>>
            THEN Yield(Frame("drain", t, <<>>, completed_coords),
                       IterationStep(<<>>, completed_coords, [text |-> "Finishing..."]))
            ELSE TensorScan(self, t + 1, completed_coords)

TensorRun(self, g) ==
    CASE g.pc = "start"  -> IF 0 \in Elems(self.micro_size)
                            THEN Raise("ZeroDivisionError")
                            ELSE IF self.array_size = 0
                            THEN Raise("ValueError")
                            ELSE IF TensorSchedules(self) = <<>>
                            THEN StopIteration
                            ELSE TensorScan(self, 0, <<>>)
      [] g.pc = "yield1" -> TensorScan(self, g.pos + 1, g.active_coords)
      [] g.pc = "drain"  -> TensorScan(self, g.pos + 1, <<>>)
      [] OTHER -> StopIteration

\* ---- the consumer: construct one scheduler, pull steps until exhaustion ----
Shapes == (1..MaxM) \X (1..MaxN) \X (1..MaxK)

Iterators ==
    {NaiveIterator(s[1], s[2], s[3], o) : s \in Shapes, o \in Orders}
    \cup {TiledIterator(s[1], s[2], s[3], p[1], p[2]) :
            s \in Shapes, p \in (1..MaxTile) \X (1..MaxTile)}
    \cup {SystolicIterator(s[1], s[2], s[3]) : s \in Shapes}
    \cup {BlockedSystolicIterator(s[1], s[2], s[3], a) : s \in Shapes, a \in 1..MaxArray}
    \cup {TensorSystolicIterator(s[1], s[2], s[3], a, m) :
            s \in Shapes, a \in 1..MaxArray,
            m \in (1..MaxMicro) \X (1..MaxMicro) \X (1..MaxMicro)}

\* no driver window: the scheduler is used on its own
NoWindow == [open |-> FALSE]
NoVisualizer == [open |-> FALSE]

Init ==
    /\ iterator \in Iterators
    /\ generator = NewGenerator
    /\ steps = <<>>
    /\ raised = "none"
    /\ call = iterator
    /\ window = NoWindow
    /\ visualizer = NoVisualizer

\* next(generator): deliver the step, or observe exhaustion
Pull(r) ==
    /\ generator' = r.gen
    /\ steps' = IF r.yielded THEN Append(steps, r.step) ELSE steps
    /\ raised' = r.raised
    /\ UNCHANGED <<iterator, call, window, visualizer>>

NaiveNext ==
    /\ iterator.cls = "NaiveIterator"
    /\ generator.pc # "done"
    /\ Pull(NaiveRun(iterator, generator))

TiledNext ==
    /\ iterator.cls = "TiledIterator"
    /\ generator.pc # "done"
    /\ Pull(TiledRun(iterator, generator))

SystolicNext ==
    /\ iterator.cls = "SystolicIterator"
    /\ generator.pc # "done"
    /\ Pull(SystolicRun(iterator, generator))

BlockedNext ==
    /\ iterator.cls = "BlockedSystolicIterator"
    /\ generator.pc # "done"
    /\ Pull(BlockedRun(iterator, generator))

TensorNext ==
    /\ iterator.cls = "TensorSystolicIterator"
    /\ generator.pc # "done"
    /\ Pull(TensorRun(iterator, generator))

Next ==
    \/ NaiveNext
    \/ TiledNext
    \/ SystolicNext
    \/ BlockedNext
    \/ TensorNext

Spec == Init /\ [][Next]_vars

Exhausted == generator.pc = "done"

\* ---- construction with arbitrary arguments, then pulling ----
\* integer arguments a caller may pass, valid or not
ArgValues == (0 - 1)..MaxArg

\* symbols of the order strings a caller may pass
OrderAlphabet == {"i", "j", "k", "x", "I"}

OrderStrings == UNION {[1..n -> OrderAlphabet] : n \in 0..MaxOrderLen}

NoGenerator == Frame("none", 0, <<>>, <<>>)

InitCtor ==
    /\ iterator = None
    /\ generator = NoGenerator
    /\ steps = <<>>
    /\ raised = "none"
    /\ call = None
    /\ window = NoWindow
    /\ visualizer = NoVisualizer

\* iterator = Cls(args); generator = iterator.run()
Construct(r, args) ==
    /\ call' = args
    /\ iterator' = r.obj
    /\ raised' = r.raised
    /\ generator' = IF r.raised = "none" THEN NewGenerator ELSE generator
    /\ UNCHANGED <<steps, window, visualizer>>

ConstructNaive ==
    /\ call = None
    /\ \E M \in ArgValues, N \in ArgValues, K \in ArgValues, order \in OrderStrings :
        Construct(NaiveNew(M, N, K, order), NaiveIterator(M, N, K, order))

ConstructTiled ==
    /\ call = None
    /\ \E M \in ArgValues, N \in ArgValues, K \in ArgValues,
       tile_size \in ArgValues, tile_k \in ArgValues :
        Construct(TiledNew(M, N, K, tile_size, tile_k),
                  TiledIterator(M, N, K, tile_size, tile_k))

ConstructSystolic ==
    /\ call = None
    /\ \E M \in ArgValues, N \in ArgValues, K \in ArgValues :
        Construct(SystolicNew(M, N, K), SystolicIterator(M, N, K))

ConstructBlocked ==
    /\ call = None
    /\ \E M \in ArgValues, N \in ArgValues, K \in ArgValues, array_size \in ArgValues :
        Construct(BlockedNew(M, N, K, array_size),
                  BlockedSystolicIterator(M, N, K, array_size))

ConstructTensor ==
    /\ call = None
    /\ \E M \in ArgValues, N \in ArgValues, K \in ArgValues, array_size \in ArgValues,
       micro_size \in ArgValues \X ArgValues \X ArgValues :
        Construct(TensorNew(M, N, K, array_size, micro_size),
                  TensorSystolicIterator(M, N, K, array_size, micro_size))

NextCtor ==
    \/ ConstructNaive
    \/ ConstructTiled
    \/ ConstructSystolic
    \/ ConstructBlocked
    \/ ConstructTensor
    \/ NaiveNext
    \/ TiledNext
    \/ SystolicNext
    \/ BlockedNext
    \/ TensorNext

SpecCtor == InitCtor /\ [][NextCtor]_vars

\* ---- vocabulary of the properties ----
Space == (0..(iterator.M - 1)) \X (0..(iterator.N - 1)) \X (0..(iterator.K - 1))

\* how many times coordinate c is listed as active / completed over the steps pulled
ActiveOcc(c) ==
    Cardinality(UNION {{<<n, q>> : q \in {r \in DOMAIN steps[n].active : steps[n].active[r] = c}} :
                       n \in DOMAIN steps})

CompletedOcc(c) ==
    Cardinality(UNION {{<<n, q>> : q \in {r \in DOMAIN steps[n].completed : steps[n].completed[r] = c}} :
                       n \in DOMAIN steps})

\* the steps whose active / completed list holds c
ActiveAt(c) == {n \in DOMAIN steps : c \in Elems(steps[n].active)}
CompletedAt(c) == {n \in DOMAIN steps : c \in Elems(steps[n].completed)}

IsBlocked == iterator.cls = "BlockedSystolicIterator"
IsTensor == iterator.cls = "TensorSystolicIterator"
IsTiled == iterator.cls = "TiledIterator"
IsSystolic == iterator.cls = "SystolicIterator"
IsNaive == iterator.cls = "NaiveIterator"

\* C1: when a Blocked Systolic run is exhausted, every coordinate of the space has
\* been listed as active exactly once over the whole run.
C1_BlockedActiveOnce ==
    (IsBlocked /\ Exhausted) => \A c \in Space : ActiveOcc(c) = 1

\* C2: when a Blocked Systolic run is exhausted, every coordinate that was active
\* in some step is completed in exactly one step, and that step is a later one.
C2_BlockedCompletedLater ==
    (IsBlocked /\ Exhausted) =>
        \A n \in DOMAIN steps : \A c \in Elems(steps[n].active) :
            /\ CompletedOcc(c) = 1
            /\ \A m \in CompletedAt(c) : m > n

\* C3: when a Tensor-Core Systolic run is exhausted, every coordinate of the space
\* has been listed as active exactly once and as completed exactly once.
C3_TensorOnceEach ==
    (IsTensor /\ Exhausted) =>
        \A c \in Space : ActiveOcc(c) = 1 /\ CompletedOcc(c) = 1

\* C4: when a Tiled run is exhausted, every coordinate of the space has been
\* listed as active exactly once and as completed exactly once, also when the
\* tile sizes do not divide the shape.
C4_TiledOnceEach ==
    (IsTiled /\ Exhausted) =>
        \A c \in Space : ActiveOcc(c) = 1 /\ CompletedOcc(c) = 1

C4_Witness ==
    /\ IsTiled /\ Exhausted
    /\ iterator.N % iterator.tile_size # 0
    /\ iterator.K > iterator.tile_k
    /\ iterator.K % iterator.tile_k # 0
    /\ Len(steps) > 4

\* the most recent step before n that had a non-empty active list (0 if none)
LastActiveBefore(n) ==
    LET prior == {m \in 1..(n - 1) : steps[m].active # <<>>}
    IN IF prior = {} THEN 0 ELSE CHOOSE m \in prior : \A o \in prior : o <= m

\* C5: for Tiled, Wavefront, Blocked and Tensor-Core, every step with a non-empty
\* completed list repeats the active list of the most recent earlier step that
\* had a non-empty active list, and the first step has an empty completed list.
C5_PipelineLag ==
    (IsTiled \/ IsSystolic \/ IsBlocked \/ IsTensor) =>
        \A n \in DOMAIN steps :
            /\ n = 1 => steps[n].completed = <<>>
            /\ steps[n].completed # <<>> =>
                  /\ LastActiveBefore(n) # 0
                  /\ steps[n].completed = steps[LastActiveBefore(n)].active

C5_Witness ==
    /\ IsTensor /\ Exhausted
    /\ Len(steps) >= 4
    /\ steps[Len(steps)].active = <<>>
    /\ steps[Len(steps)].completed # <<>>
    /\ steps[2].completed # <<>>

\* the block of the S x S partition that owns coordinate c: its 0-based index in
\* row-major enumeration, and the wavefront offset of c inside it
BlockIndexOf(c) ==
    LET S == iterator.array_size
    IN (c[1] \div S) * ((iterator.N + S - 1) \div S) + (c[2] \div S)

LocalTimeOf(c) == (c[1] % iterator.array_size) + (c[2] % iterator.array_size) + c[3]

\* C6: in a Blocked Systolic run the b-th block starts at b*K, and every
\* coordinate of the space is active at global time b*K + (i - i_base) +
\* (j - j_base) + k and at no other time.
C6_BlockedActiveTime ==
    (IsBlocked /\ Exhausted) =>
        /\ \A q \in DOMAIN BlockedSchedules(iterator) :
              BlockedSchedules(iterator)[q].start_time = (q - 1) * iterator.K
        /\ \A c \in Space :
              /\ ActiveAt(c) # {}
              /\ \A n \in ActiveAt(c) :
                    steps[n].description.t = BlockIndexOf(c) * iterator.K + LocalTimeOf(c)

\* the timing half of C6 alone: whenever a coordinate is active, the global time
\* of that step is b*K plus its wavefront offset, hence never earlier than b*K
BlockedActiveOnlyOnTime ==
    IsBlocked =>
        \A n \in DOMAIN steps : \A c \in Elems(steps[n].active) :
            /\ steps[n].description.t = BlockIndexOf(c) * iterator.K + LocalTimeOf(c)
            /\ steps[n].description.t >= BlockIndexOf(c) * iterator.K

\* C7: the n-th step of a Wavefront run (n = 0 .. M+N+K-3) lists as active exactly
\* the coordinates with i+j+k = n, each once, and all of these steps are emitted;
\* for M=N=K=2 the four active lists are the ones of the specification.
C7_WavefrontSets ==
    IsSystolic =>
        /\ \A n \in DOMAIN steps :
              n <= iterator.M + iterator.N + iterator.K - 2 =>
                 /\ Elems(steps[n].active) = {c \in Space : c[1] + c[2] + c[3] = n - 1}
                 /\ Len(steps[n].active) = Cardinality(Elems(steps[n].active))
        /\ Exhausted => Len(steps) >= iterator.M + iterator.N + iterator.K - 2
        /\ (Exhausted /\ iterator.M = 2 /\ iterator.N = 2 /\ iterator.K = 2) =>
              /\ steps[1].active = <<<<0, 0, 0>>>>
              /\ steps[2].active = <<<<0, 0, 1>>, <<0, 1, 0>>, <<1, 0, 0>>>>
              /\ steps[3].active = <<<<0, 1, 1>>, <<1, 0, 1>>, <<1, 1, 0>>>>
              /\ steps[4].active = <<<<1, 1, 1>>>>

C7_Witness ==
    /\ IsSystolic /\ Exhausted
    /\ iterator.M = 2 /\ iterator.N = 2 /\ iterator.K = 2
    /\ Len(steps) = 5

\* C8: an exhausted Wavefront run consists of M+N+K-2 steps with non-empty
\* active lists, at the consecutive times 0 .. M+N+K-3, followed by exactly one
\* step with an empty active list that completes the last wavefront.
C8_WavefrontStepCount ==
    (IsSystolic /\ Exhausted) =>
        LET W == (iterator.M - 1) + (iterator.N - 1) + (iterator.K - 1) + 1
        IN /\ Len(steps) = W + 1
           /\ \A n \in 1..W : steps[n].active # <<>> /\ steps[n].description.t = n - 1
           /\ steps[W + 1].active = <<>>
           /\ steps[W + 1].completed = steps[W].active

C8_Witness ==
    /\ IsSystolic /\ Exhausted
    /\ iterator.N > 2 /\ iterator.K > 1
    /\ steps[Len(steps)].active = <<>>

\* C9: a Naive run alternates: each odd-numbered step has one active coordinate
\* and nothing completed, the step after it has nothing active and completes
\* that same coordinate; an exhausted run has exactly 2*M*N*K steps.
C9_NaiveAlternates ==
    IsNaive =>
        /\ \A n \in DOMAIN steps :
              IF n % 2 = 1
              THEN Len(steps[n].active) = 1 /\ steps[n].completed = <<>>
              ELSE steps[n].active = <<>> /\ steps[n].completed = steps[n - 1].active
        /\ Exhausted => Len(steps) = 2 * iterator.M * iterator.N * iterator.K

C9_Witness ==
    /\ IsNaive /\ Exhausted
    /\ iterator.M * iterator.N * iterator.K > 4
    /\ Len(steps) > 8

\* position of an axis symbol in the (i, j, k) triple, and its extent
AxisOf(a) == IF a = "i" THEN 1 ELSE IF a = "j" THEN 2 ELSE 3
ExtentOf(a) == IF a = "i" THEN iterator.M ELSE IF a = "j" THEN iterator.N ELSE iterator.K

\* the number of loop iterations that precede coordinate c when the loops are
\* nested as `order` says, every axis counting up from 0
LoopRank(c) ==
    LET o == iterator.order
    IN (c[AxisOf(o[1])] * ExtentOf(o[2]) + c[AxisOf(o[2])]) * ExtentOf(o[3]) + c[AxisOf(o[3])]

\* C10: the coordinate of the p-th odd-numbered Naive step is the p-th iteration
\* of the loop nest given by `order` (first symbol outermost), reported as
\* (i, j, k) inside the shape; for "ijk" and shape (2,2,2) it is the listed sequence.
C10_NaiveOrder ==
    IsNaive =>
        /\ \A n \in DOMAIN steps :
              n % 2 = 1 =>
                 /\ steps[n].active[1] \in Space
                 /\ LoopRank(steps[n].active[1]) = (n - 1) \div 2
        /\ (Exhausted /\ iterator = NaiveIterator(2, 2, 2, <<"i", "j", "k">>)) =>
              [p \in 1..8 |-> steps[2 * p - 1].active[1]] =
                  <<<<0, 0, 0>>, <<0, 0, 1>>, <<0, 1, 0>>, <<0, 1, 1>>,
                    <<1, 0, 0>>, <<1, 0, 1>>, <<1, 1, 0>>, <<1, 1, 1>>>>

C10_Witness ==
    /\ IsNaive /\ Exhausted
    /\ iterator.order = <<"k", "i", "j">>
    /\ iterator.M = 2 /\ iterator.N = 3 /\ iterator.K = 2

\* next() on the generator of any scheduler
Resume(self, g) ==
    CASE self.cls = "NaiveIterator" -> NaiveRun(self, g)
      [] self.cls = "TiledIterator" -> TiledRun(self, g)
      [] self.cls = "SystolicIterator" -> SystolicRun(self, g)
      [] self.cls = "BlockedSystolicIterator" -> BlockedRun(self, g)
      [] self.cls = "TensorSystolicIterator" -> TensorRun(self, g)

\* list(self.run()), continued from frame g
RECURSIVE RunFrom(_, _)
RunFrom(self, g) ==
    LET r == Resume(self, g)
    IN IF r.yielded THEN <<r.step>> \o RunFrom(self, r.gen) ELSE <<>>

CeilDiv(a, b) == (a + b - 1) \div b

\* the Blocked Systolic scheduler on the macro lattice of a Tensor-Core scheduler
MacroBlocked ==
    BlockedSystolicIterator(CeilDiv(iterator.M, iterator.micro_size[1]),
                            CeilDiv(iterator.N, iterator.micro_size[2]),
                            CeilDiv(iterator.K, iterator.micro_size[3]),
                            iterator.array_size)

\* the fine coordinates of a set of macro coordinates
Expand(macros) ==
    {c \in Space : <<c[1] \div iterator.micro_size[1], c[2] \div iterator.micro_size[2],
                     c[3] \div iterator.micro_size[3]>> \in macros}

\* C11: every step of a Tensor-Core run is the micro-tile expansion of the step
\* with the same index of the Blocked Systolic run on the macro lattice, both
\* runs have the same number of steps, and with micro_size (1,1,1) the active
\* and completed lists are identical.
C11_TensorIsExpandedBlocked ==
    IsTensor =>
        LET ref == RunFrom(MacroBlocked, NewGenerator)
        IN /\ Len(steps) <= Len(ref)
           /\ Exhausted => Len(steps) = Len(ref)
           /\ \A n \in DOMAIN steps :
                 /\ Elems(steps[n].active) = Expand(Elems(ref[n].active))
                 /\ Elems(steps[n].completed) = Expand(Elems(ref[n].completed))
                 /\ iterator.micro_size = <<1, 1, 1>> =>
                       /\ steps[n].active = ref[n].active
                       /\ steps[n].completed = ref[n].completed

C11_Witness ==
    /\ IsTensor /\ Exhausted
    /\ iterator.micro_size = <<2, 2, 2>>
    /\ iterator.M = 3 /\ iterator.N = 5 /\ iterator.K = 3
    /\ iterator.array_size = 2
    /\ Len(steps) > 4

\* ---- Visualizer3D: the persistent colour of every cube, the frame shown, ----
\* ---- and the colours of the A, B and C projection planes                ----
Visualizer3D(M, N, K) ==
    [M |-> M, N |-> N, K |-> K, systolic_size |-> 0,
     cube_colors_state |-> [idx \in 0..(M * N * K - 1) |-> "default"],
     frame |-> [idx \in 0..(M * N * K - 1) |-> "default"],
     proj_A |-> [idx \in 0..(M * K - 1) |-> "base"],
     proj_B |-> [idx \in 0..(N * K - 1) |-> "base"],
     proj_C |-> [idx \in 0..(M * N - 1) |-> "base"]]

get_volume_index(v, c) == c[1] * (v.N * v.K) + c[2] * v.K + c[3]

get_A_index(v, c) == c[1] * v.K + c[3]

get_B_index(v, c) == c[2] * v.K + c[3]

get_C_index(v, c) == c[1] * v.N + c[2]

\* the cube indices a list of coordinates maps to, out-of-range indices dropped
VolumeIndices(v, blocks) ==
    {get_volume_index(v, blocks[n]) : n \in DOMAIN blocks} \cap DOMAIN v.cube_colors_state

\* an operand of the coordinate is passed on from a neighbouring processing element
Transferred(v, along) == v.systolic_size # 0 /\ along % v.systolic_size # 0

\* variant: the active overlay is written into the persistent state itself
update_view_in_place(v, active_blocks, completed_blocks) ==
    LET state == [idx \in DOMAIN v.cube_colors_state |->
                    IF idx \in VolumeIndices(v, completed_blocks)
                    THEN "done" ELSE v.cube_colors_state[idx]]
        current_colors == [idx \in DOMAIN state |->
                    IF idx \in VolumeIndices(v, active_blocks)
                    THEN "active" ELSE state[idx]]
    IN [v EXCEPT !.cube_colors_state = current_colors, !.frame = current_colors]

update_view(v, active_blocks, completed_blocks) ==
    LET state == [idx \in DOMAIN v.cube_colors_state |->
                    IF idx \in VolumeIndices(v, completed_blocks)
                    THEN "done" ELSE v.cube_colors_state[idx]]
        current_colors == [idx \in DOMAIN state |->
                    IF idx \in VolumeIndices(v, active_blocks)
                    THEN "active" ELSE state[idx]]
        act == Elems(active_blocks)
        A_direct == {get_A_index(v, c) : c \in {d \in act : ~Transferred(v, d[2])}}
        A_transferred == {get_A_index(v, c) : c \in {d \in act : Transferred(v, d[2])}}
        B_direct == {get_B_index(v, c) : c \in {d \in act : ~Transferred(v, d[1])}}
        B_transferred == {get_B_index(v, c) : c \in {d \in act : Transferred(v, d[1])}}
        C_active == {get_C_index(v, c) : c \in act}
    IN [v EXCEPT !.cube_colors_state = state,
                 !.frame = current_colors,
                 !.proj_A = [idx \in DOMAIN v.proj_A |->
                                IF idx \in A_direct THEN "active"
                                ELSE IF idx \in A_transferred THEN "transferred"
                                ELSE "base"],
                 !.proj_B = [idx \in DOMAIN v.proj_B |->
                                IF idx \in B_direct THEN "active"
                                ELSE IF idx \in B_transferred THEN "transferred"
                                ELSE "base"],
                 !.proj_C = [idx \in DOMAIN v.proj_C |->
                                IF idx \in C_active THEN "active" ELSE "base"]]

reset_simulation(v) ==
    [v EXCEPT !.cube_colors_state = [idx \in DOMAIN v.cube_colors_state |-> "default"],
              !.frame = [idx \in DOMAIN v.frame |-> "default"],
              !.proj_A = [idx \in DOMAIN v.proj_A |-> "base"],
              !.proj_B = [idx \in DOMAIN v.proj_B |-> "base"],
              !.proj_C = [idx \in DOMAIN v.proj_C |-> "base"]]

\* ---- MainWindow: the driver ----
AlgoTexts == {"Naive (ijk)", "Naive (ikj)", "Naive (jki)", "Tensor Core (4x4x4)",
              "Blocked Systolic (8x8 array, 1x1x1 pe)",
              "Tensor Core Systolic (2x2 array, 2x2x4 pe)"}

\* algo_text.split("(")[1].split(")")[0]
OrderOfText(algo_text) ==
    CASE algo_text = "Naive (ijk)" -> <<"i", "j", "k">>
      [] algo_text = "Naive (ikj)" -> <<"i", "k", "j">>
      [] algo_text = "Naive (jki)" -> <<"j", "k", "i">>

\* the visualisation array size chosen from the label (0 stands for None)
SystolicSizeOfText(algo_text) ==
    IF algo_text = "Blocked Systolic (8x8 array, 1x1x1 pe)" THEN 16
    ELSE IF algo_text = "Tensor Core Systolic (2x2 array, 2x2x4 pe)" THEN 4
    ELSE 0

\* the scheduler start_new_simulation constructs for the selected label
IteratorOfText(algo_text, M, N, K) ==
    IF algo_text \in {"Naive (ijk)", "Naive (ikj)", "Naive (jki)"}
    THEN NaiveNew(M, N, K, OrderOfText(algo_text)).obj
    ELSE IF algo_text = "Tensor Core (4x4x4)"
    THEN TiledNew(M, N, K, 4, 4).obj
    ELSE IF algo_text = "Blocked Systolic (8x8 array, 1x1x1 pe)"
    THEN BlockedNew(M, N, K, 8).obj
    ELSE TensorNew(M, N, K, 2, <<2, 2, 4>>).obj

\* current_cycle and total_macs do not exist before the first start or reset (-1)
MainWindow(M, N, K, algo_text) ==
    [open |-> TRUE, M |-> M, N |-> N, K |-> K, algo_text |-> algo_text,
     is_running |-> FALSE, timer |-> FALSE, current_cycle |-> 0 - 1,
     total_macs |-> 0 - 1, status |-> "Ready"]

\* the window as constructed, with the spin boxes and the combo box at any of
\* the values the user can set them to before playback starts
InitDriver ==
    /\ \E M \in 1..MaxSpin, N \in 1..MaxSpin, K \in 1..MaxSpin, algo_text \in AlgoTexts :
          /\ window = MainWindow(M, N, K, algo_text)
          /\ visualizer = Visualizer3D(M, N, K)
    /\ iterator = None
    /\ generator = NoGenerator
    /\ steps = <<>>
    /\ raised = "none"
    /\ call = None

\* the combo box selection changes; no handler is connected
SelectAlgo ==
    /\ \E algo_text \in AlgoTexts \ {window.algo_text} :
          window' = [window EXCEPT !.algo_text = algo_text]
    /\ UNCHANGED <<iterator, generator, steps, raised, call, visualizer>>

\* variant: a spin box change rebuilds the visualizer but keeps scheduler and generator
UpdateDimsKeepGenerator ==
    /\ \E M \in 1..MaxSpin, N \in 1..MaxSpin, K \in 1..MaxSpin :
          /\ Cardinality({n \in 1..3 : <<M, N, K>>[n] # <<window.M, window.N, window.K>>[n]}) = 1
          /\ window' = [window EXCEPT !.M = M, !.N = N, !.K = K, !.is_running = FALSE,
                                      !.timer = FALSE, !.status = "Ready"]
          /\ visualizer' = Visualizer3D(M, N, K)
    /\ steps' = <<>>
    /\ UNCHANGED <<iterator, generator, raised, call>>

\* a spin box changes: update_dims -> init_visualizer
UpdateDims ==
    /\ \E M \in 1..MaxSpin, N \in 1..MaxSpin, K \in 1..MaxSpin :
          /\ Cardinality({n \in 1..3 : <<M, N, K>>[n] # <<window.M, window.N, window.K>>[n]}) = 1
          /\ window' = [window EXCEPT !.M = M, !.N = N, !.K = K, !.is_running = FALSE,
                                      !.timer = FALSE, !.status = "Ready"]
          /\ visualizer' = Visualizer3D(M, N, K)
    /\ iterator' = None
    /\ generator' = NoGenerator
    /\ steps' = <<>>
    /\ UNCHANGED <<raised, call>>

\* variant: Start always begins a new simulation, also when resuming from a pause
ToggleAnimationRestart ==
    IF window.is_running
    THEN /\ window' = [window EXCEPT !.timer = FALSE, !.is_running = FALSE,
                                     !.status = "Paused"]
         /\ UNCHANGED <<iterator, generator, steps, raised, call, visualizer>>
    ELSE /\ iterator' = IteratorOfText(window.algo_text, window.M, window.N, window.K)
         /\ generator' = NewGenerator
         /\ steps' = <<>>
         /\ visualizer' = reset_simulation(
                [visualizer EXCEPT !.systolic_size = SystolicSizeOfText(window.algo_text)])
         /\ window' = [window EXCEPT !.current_cycle = 0, !.total_macs = 0,
                                     !.timer = TRUE, !.is_running = TRUE,
                                     !.status = "Running..."]
         /\ UNCHANGED <<raised, call>>

\* the Start / Pause button: toggle_animation, with start_new_simulation inlined
ToggleAnimation ==
    IF window.is_running
    THEN /\ window' = [window EXCEPT !.timer = FALSE, !.is_running = FALSE,
                                     !.status = "Paused"]
         /\ UNCHANGED <<iterator, generator, steps, raised, call, visualizer>>
    ELSE IF generator = NoGenerator
    THEN /\ iterator' = IteratorOfText(window.algo_text, window.M, window.N, window.K)
         /\ generator' = NewGenerator
         /\ steps' = <<>>
         /\ visualizer' = reset_simulation(
                [visualizer EXCEPT !.systolic_size = SystolicSizeOfText(window.algo_text)])
         /\ window' = [window EXCEPT !.current_cycle = 0, !.total_macs = 0,
                                     !.timer = TRUE, !.is_running = TRUE,
                                     !.status = "Running..."]
         /\ UNCHANGED <<raised, call>>
    ELSE /\ window' = [window EXCEPT !.timer = TRUE, !.is_running = TRUE,
                                     !.status = "Running..."]
         /\ UNCHANGED <<iterator, generator, steps, raised, call, visualizer>>

\* variant: Reset drops the generator but leaves playback running
ResetSimulationKeepRunning ==
    /\ window' = [window EXCEPT !.current_cycle = 0, !.total_macs = 0,
                                !.status = "Reset"]
    /\ generator' = NoGenerator
    /\ visualizer' = reset_simulation(visualizer)
    /\ steps' = <<>>
    /\ UNCHANGED <<iterator, raised, call>>

\* the Reset button: reset_simulation
ResetSimulation ==
    /\ window' = [window EXCEPT !.timer = FALSE, !.is_running = FALSE,
                                !.current_cycle = 0, !.total_macs = 0,
                                !.status = "Reset"]
    /\ generator' = NoGenerator
    /\ visualizer' = reset_simulation(visualizer)
    /\ steps' = <<>>
    /\ UNCHANGED <<iterator, raised, call>>

\* the timer fires: step_animation
StepAnimation ==
    /\ window.timer
    /\ IF generator = NoGenerator
       THEN UNCHANGED vars
       ELSE LET r == Resume(iterator, generator)
            IN IF r.yielded
               THEN /\ generator' = r.gen
                    /\ steps' = Append(steps, r.step)
                    /\ window' = IF r.step.active # <<>>
                                 THEN [window EXCEPT
                                         !.current_cycle = window.current_cycle + 1,
                                         !.total_macs = window.total_macs + Len(r.step.active),
                                         !.status = r.step.description.text]
                                 ELSE [window EXCEPT !.status = r.step.description.text]
                    /\ visualizer' = update_view(visualizer, r.step.active, r.step.completed)
                    /\ UNCHANGED <<iterator, raised, call>>
               ELSE /\ window' = [window EXCEPT !.timer = FALSE, !.is_running = FALSE,
                                                !.status = "Finished"]
                    /\ generator' = NoGenerator
                    /\ UNCHANGED <<iterator, steps, raised, call, visualizer>>

NextDriver ==
    \/ SelectAlgo
    \/ UpdateDims
    \/ ToggleAnimation
    \/ ResetSimulation
    \/ StepAnimation

SpecDriver == InitDriver /\ [][NextDriver]_vars

\* ---- the visualizer on its own: update_view and reset_simulation with any lists ----
ViewShapes ==
    {sh \in (1..MaxViewDim) \X (1..MaxViewDim) \X (1..MaxViewDim) :
        sh[1] * sh[2] * sh[3] <= MaxCubes}

\* systolic_size: None (0) or a size set by the driver
ViewSystolicSizes == {0, 2}

ViewSpace(v) == (0..(v.M - 1)) \X (0..(v.N - 1)) \X (0..(v.K - 1))

\* a set of coordinates as a list, in cube index order
RECURSIVE InIndexOrder(_, _)
InIndexOrder(v, S) ==
    IF S = {}
    THEN <<>>
    ELSE LET c == CHOOSE c \in S :
                    \A d \in S : get_volume_index(v, c) <= get_volume_index(v, d)
         IN <<c>> \o InIndexOrder(v, S \ {c})

InitView ==
    /\ \E sh \in ViewShapes, z \in ViewSystolicSizes :
          visualizer = [Visualizer3D(sh[1], sh[2], sh[3]) EXCEPT !.systolic_size = z]
    /\ call = None
    /\ iterator = None
    /\ generator = NoGenerator
    /\ steps = <<>>
    /\ raised = "none"
    /\ window = NoWindow

UpdateView ==
    /\ \E A \in SUBSET ViewSpace(visualizer), C \in SUBSET ViewSpace(visualizer) :
          LET active_blocks == InIndexOrder(visualizer, A)
              completed_blocks == InIndexOrder(visualizer, C)
          IN /\ visualizer' = update_view(visualizer, active_blocks, completed_blocks)
             /\ call' = [cls |-> "update_view", active |-> active_blocks,
                         completed |-> completed_blocks]
    /\ UNCHANGED <<iterator, generator, steps, raised, window>>

ResetView ==
    /\ visualizer' = reset_simulation(visualizer)
    /\ call' = [cls |-> "reset_simulation"]
    /\ UNCHANGED <<iterator, generator, steps, raised, window>>

NextView ==
    \/ UpdateView
    \/ ResetView

SpecView == InitView /\ [][NextView]_vars

\* a constructor call has been made with these arguments
Called(cls) == call # None /\ call.cls = cls

\* C12: a constructor call with M, N or K non-positive raises an error, creates
\* no scheduler instance, and no step is ever produced.
C12_InvalidShapeRejected ==
    (call # None /\ (call.M < 1 \/ call.N < 1 \/ call.K < 1)) =>
        /\ iterator = None
        /\ raised # "none"
        /\ steps = <<>>

\* the strategy parameters of the constructor call are all at least 1
CallConfigured ==
    /\ Called("TiledIterator") => call.tile_size >= 1 /\ call.tile_k >= 1
    /\ Called("BlockedSystolicIterator") => call.array_size >= 1
    /\ Called("TensorSystolicIterator") =>
          call.array_size >= 1 /\ \A n \in 1..3 : call.micro_size[n] >= 1

\* C13: a Tiled, Blocked or Tensor-Core constructor call with a tile, array or
\* micro dimension below 1 raises an error at construction and creates no
\* instance; no error is ever raised while a run is being pulled.
C13_InvalidConfigurationRejected ==
    (call # None /\ call.M >= 1 /\ call.N >= 1 /\ call.K >= 1) =>
        /\ ~CallConfigured => iterator = None /\ raised # "none"
        /\ raised # "none" => iterator = None

\* the order is one of the six permutations, spelled in lower case
IsPermutation(order) == order \in Orders

\* the order is one of the six permutations, spelled in any letter case
IsPermutationAnyCase(order) ==
    \E o \in Orders :
        /\ Len(order) = 3
        /\ \A n \in 1..3 :
              \/ order[n] = o[n]
              \/ o[n] = "i" /\ order[n] = "I"
              \/ o[n] = "j" /\ order[n] = "J"
              \/ o[n] = "k" /\ order[n] = "K"

\* C14 as stated: NaiveIterator construction fails exactly for the order strings
\* that are not one of the six permutations of i, j, k.
C14_OrderValidatedExactly ==
    Called("NaiveIterator") =>
        ((iterator = None /\ raised # "none") <=> ~IsPermutation(call.order))

\* C14: NaiveIterator construction fails with ValueError exactly for the order
\* strings whose lower-cased form is not one of the six permutations of i, j, k;
\* it succeeds for every spelling of a permutation, upper-case letters included,
\* and stores the lower-cased order.
C14_OrderValidatedAfterLower ==
    Called("NaiveIterator") =>
        /\ (iterator = None /\ raised = "ValueError") <=> ~IsPermutationAnyCase(call.order)
        /\ IsPermutationAnyCase(call.order) =>
              /\ iterator.cls = "NaiveIterator"
              /\ raised = "none"
              /\ IsPermutation(iterator.order)
              /\ \A n \in 1..3 :
                    \/ iterator.order[n] = call.order[n]
                    \/ iterator.order[n] = "i" /\ call.order[n] = "I"
                    \/ iterator.order[n] = "j" /\ call.order[n] = "J"
                    \/ iterator.order[n] = "k" /\ call.order[n] = "K"

C14_Witness ==
    /\ Called("NaiveIterator")
    /\ call.order = <<"i", "j", "k", "k">>
    /\ iterator = None
    /\ raised = "ValueError"

\* last_block.start_time + last_block.duration + 2 of the S x S partition of an
\* m x n output plane with reduction length k
BlockedBound(m, n, k, S) ==
    LET bi == CeilDiv(m, S)
        bj == CeilDiv(n, S)
        lastM == m - (bi - 1) * S
        lastN == n - (bj - 1) * S
    IN (bi * bj - 1) * k + (lastM - 1) + (lastN - 1) + (k - 1) + 2

\* the step count computed from the shape and the parameters alone
StepBound ==
    CASE IsNaive -> 2 * iterator.M * iterator.N * iterator.K
      [] IsTiled -> CeilDiv(iterator.M, iterator.tile_size)
                    * CeilDiv(iterator.N, iterator.tile_size)
                    * CeilDiv(iterator.K, iterator.tile_k) + 1
      [] IsSystolic -> iterator.M + iterator.N + iterator.K - 1
      [] IsBlocked -> BlockedBound(iterator.M, iterator.N, iterator.K, iterator.array_size)
      [] IsTensor -> BlockedBound(CeilDiv(iterator.M, iterator.micro_size[1]),
                                  CeilDiv(iterator.N, iterator.micro_size[2]),
                                  CeilDiv(iterator.K, iterator.micro_size[3]),
                                  iterator.array_size)

\* C15: every pull either delivers one more step or finds the run exhausted, and
\* the number of steps delivered never exceeds the bound computed from the shape
\* and the parameters; hence a run is exhausted after at most bound + 1 pulls.
C15_BoundedTermination ==
    [][/\ Exhausted' \/ Len(steps') = Len(steps) + 1
       /\ Len(steps') <= StepBound']_vars

C15_Witness ==
    /\ IsBlocked /\ Exhausted
    /\ iterator.array_size < iterator.N
    /\ Len(steps) = StepBound
    /\ Len(steps) > 5

\* C16: every coordinate a Tensor-Core step lists as active or completed lies
\* inside [0,M) x [0,N) x [0,K), also when the micro sizes do not divide the shape.
C16_TensorInRange ==
    IsTensor =>
        \A n \in DOMAIN steps :
            /\ Elems(steps[n].active) \subseteq Space
            /\ Elems(steps[n].completed) \subseteq Space

C16_Witness ==
    /\ IsTensor /\ Exhausted
    /\ iterator.micro_size = <<2, 2, 2>>
    /\ iterator.M = 3 /\ iterator.N = 5 /\ iterator.K = 3
    /\ \E n \in DOMAIN steps : <<2, 4, 2>> \in Elems(steps[n].completed)

\* ---- C18 ----
\* C18: in the driver, steps are delivered only by timer ticks while playback
\* runs, each tick delivers exactly the scheduler's next step, pausing and
\* resuming leave the scheduler and the delivered steps untouched (so the
\* remaining steps, backlog included, are those of the uninterrupted run), and
\* a playback that finishes has delivered the scheduler's whole sequence.
FullRun == RunFrom(iterator, NewGenerator)

C18_PauseResumeSameSequence ==
    [][/\ (steps' # steps /\ steps' # <<>>) =>
              /\ window.is_running /\ window.timer
              /\ iterator' = iterator
              /\ Len(steps') <= Len(FullRun)
              /\ steps' = Append(steps, FullRun[Len(steps')])
       /\ (window.is_running # window'.is_running /\ generator # NoGenerator
             /\ window'.status \in {"Paused", "Running..."}) =>
              UNCHANGED <<iterator, generator, steps, visualizer>>
       /\ generator' # NoGenerator =>
              steps' \o RunFrom(iterator', generator') = RunFrom(iterator', NewGenerator)
       /\ (generator # NoGenerator /\ window'.status = "Finished") =>
              steps' = FullRun]_vars

\* playback was paused part-way and has just been resumed: the status is the
\* one Start sets, yet steps of this run have been delivered and more remain
C18_Witness ==
    /\ window.open
    /\ window.is_running
    /\ window.status = "Running..."
    /\ Len(steps) >= 2
    /\ Len(steps) < Len(FullRun)
    /\ steps[Len(steps)].active = <<>>

\* ---- C19 ----
\* the n-th tile in i-tile-outer, j-tile-middle, k-tile-inner order, as a set
NthTile(n) ==
    LET T  == iterator.tile_size
        Tk == iterator.tile_k
        nj == CeilDiv(iterator.N, T)
        nk == CeilDiv(iterator.K, Tk)
        ib == ((n - 1) \div (nj * nk)) * T
        jb == (((n - 1) \div nk) % nj) * T
        kb == ((n - 1) % nk) * Tk
    IN (ib..(Min(ib + T, iterator.M) - 1))
         \X (jb..(Min(jb + T, iterator.N) - 1))
         \X (kb..(Min(kb + Tk, iterator.K) - 1))

TileCount ==
    CeilDiv(iterator.M, iterator.tile_size) * CeilDiv(iterator.N, iterator.tile_size)
        * CeilDiv(iterator.K, iterator.tile_k)

\* C19: the n-th step of a Tiled run with non-empty active is active on exactly
\* the n-th tile (i tiles outer, j middle, k inner, clipped to the shape); the
\* run has ceil(M/T)*ceil(N/T)*ceil(K/Tk) such steps and then exactly one flush
\* step with empty active; a tile covering the whole shape gives exactly two
\* steps: all coordinates active with nothing completed, then nothing active
\* with all coordinates completed.
C19_TiledTileOrder ==
    IsTiled =>
        /\ Len(steps) <= TileCount + 1
        /\ \A n \in DOMAIN steps :
              IF n <= TileCount
              THEN /\ steps[n].active # <<>>
                   /\ Elems(steps[n].active) = NthTile(n)
                   /\ Len(steps[n].active) = Cardinality(NthTile(n))
              ELSE steps[n].active = <<>>
        /\ Exhausted => Len(steps) = TileCount + 1
        /\ (Exhausted /\ iterator.tile_size >= iterator.M
              /\ iterator.tile_size >= iterator.N /\ iterator.tile_k >= iterator.K) =>
              /\ Len(steps) = 2
              /\ Elems(steps[1].active) = Space
              /\ steps[1].completed = <<>>
              /\ steps[2].active = <<>>
              /\ Elems(steps[2].completed) = Space

\* a finished Tiled run with several tiles along every axis, clipped at the edge
C19_Witness ==
    /\ IsTiled
    /\ Exhausted
    /\ CeilDiv(iterator.M, iterator.tile_size) >= 2
    /\ CeilDiv(iterator.N, iterator.tile_size) >= 2
    /\ CeilDiv(iterator.K, iterator.tile_k) >= 2
    /\ iterator.M % iterator.tile_size # 0
    /\ iterator.M # iterator.N
    /\ Len(steps) = TileCount + 1

\* ---- C20 ----
\* the processing element of the shared array_size x array_size array that computes c
PEOf(c) == <<c[1] % iterator.array_size, c[2] % iterator.array_size>>

\* C20: in every step of a Blocked run no two distinct active coordinates map
\* to the same processing element (i mod S, j mod S), and no coordinate is
\* listed twice in the same step.
C20_BlockedNoPEConflict ==
    IsBlocked =>
        \A n \in DOMAIN steps :
            \A p, q \in DOMAIN steps[n].active :
                p # q => PEOf(steps[n].active[p]) # PEOf(steps[n].active[q])

\* a step in which two different blocks are active at once on the shared array
C20_Witness ==
    /\ IsBlocked
    /\ \E n \in DOMAIN steps :
          \E p, q \in DOMAIN steps[n].active :
              /\ BlockIndexOf(steps[n].active[p]) # BlockIndexOf(steps[n].active[q])
              /\ iterator.K >= 2

\* ---- C21 ----
\* C21: in a Blocked or Tensor-Core run a step with empty active is the last
\* step of the run (nothing is delivered after it), and the active steps are
\* those of the consecutive global times 0, 1, 2, ...: no time inside the loop
\* range is idle before the last active one, so at most one draining step is
\* emitted, at the end.
C21_NoIdleGap ==
    (IsBlocked \/ IsTensor) =>
        \A n \in DOMAIN steps :
            IF steps[n].active = <<>>
            THEN /\ n = Len(steps)
                 /\ steps[n].completed # <<>>
                 /\ RunFrom(iterator, generator) = <<>>
            ELSE steps[n].description.t = n - 1

\* a run over several pipelined blocks has ended with its one draining step
C21_Witness ==
    /\ IsBlocked \/ IsTensor
    /\ Exhausted
    /\ Len(steps) >= 4
    /\ steps[Len(steps)].active = <<>>
    /\ \E n \in DOMAIN steps : \E p, q \in DOMAIN steps[n].active :
          (steps[n].active[p][1] \div iterator.array_size)
              # (steps[n].active[q][1] \div iterator.array_size)

\* ---- C22 ----
\* the active and completed lists of a step sequence, descriptions dropped
Sets(ss) == [n \in DOMAIN ss |-> [active |-> ss[n].active, completed |-> ss[n].completed]]

\* the whole run of the plain Systolic scheduler on the same shape
SystolicTwin ==
    Sets(RunFrom(SystolicIterator(iterator.M, iterator.N, iterator.K), NewGenerator))

\* C22: with array_size >= max(M, N) a Blocked run delivers the same active and
\* completed lists as the Systolic scheduler of the same shape: step by step
\* the same wavefront and backlog, the same number of steps, and the same
\* final step with empty active completing the last wavefront.
C22_SingleBlockIsSystolic ==
    (IsBlocked /\ iterator.array_size >= iterator.M /\ iterator.array_size >= iterator.N) =>
        /\ Len(steps) <= Len(SystolicTwin)
        /\ Sets(steps) = SubSeq(SystolicTwin, 1, Len(steps))
        /\ Exhausted => Len(steps) = Len(SystolicTwin)

\* a finished single-block run with a real wavefront in every direction
C22_Witness ==
    /\ IsBlocked
    /\ Exhausted
    /\ iterator.array_size >= iterator.M
    /\ iterator.array_size >= iterator.N
    /\ iterator.M >= 2 /\ iterator.N >= 3 /\ iterator.K >= 2
    /\ steps[Len(steps)].active = <<>>
    /\ Len(steps) = iterator.M + iterator.N + iterator.K - 1

\* ---- C23 ----
\* C23: no delivered step of any of the five schedulers has both an empty
\* active list and an empty completed list.
C23_NoEmptyStep ==
    \A n \in DOMAIN steps : steps[n].active # <<>> \/ steps[n].completed # <<>>

\* a finished run whose last step is the flush of a non-empty backlog
C23_Witness ==
    /\ IsTiled
    /\ Exhausted
    /\ Len(steps) >= 3
    /\ steps[Len(steps)].active = <<>>
    /\ Len(steps[Len(steps)].completed) >= 2
    /\ steps[1].completed = <<>>

\* ---- C24 ----
\* C24: in the driver is_running holds exactly when the playback timer is
\* active, and while it holds a scheduler and its step generator exist; hence
\* a timer tick never finds the generator missing, and a step is delivered
\* only by a tick that has one.
C24_RunningHasGenerator ==
    window.open =>
        /\ window.is_running <=> window.timer
        /\ window.is_running => (generator # NoGenerator /\ iterator # None)
        /\ steps # <<>> => iterator # None

\* playback was running part-way through a schedule and has been reset
C24_Witness ==
    /\ window.open
    /\ window.status = "Reset"
    /\ ~window.is_running
    /\ ~window.timer
    /\ generator = NoGenerator
    /\ iterator # None

\* ---- C25 ----
AllDefault(v) ==
    /\ \A idx \in DOMAIN v.cube_colors_state : v.cube_colors_state[idx] = "default"
    /\ \A idx \in DOMAIN v.frame : v.frame[idx] = "default"

\* C25: in the driver a Reset, a dimension change and the exhaustion of the
\* sequence drop the generator and stop playback; while no generator exists no
\* step is delivered; a generator that exists belongs to a scheduler of the
\* current shape; the Start that creates a generator constructs a scheduler
\* of the current shape, clears the visualizer and the cycle and MAC counters,
\* and the first step delivered afterwards is the first step of that schedule.
C25_DropAndRestart ==
    [][/\ window'.status \in {"Reset", "Ready", "Finished"} =>
              (generator' = NoGenerator /\ ~window'.is_running /\ ~window'.timer)
       /\ generator = NoGenerator => Len(steps') <= Len(steps)
       /\ generator' # NoGenerator =>
              /\ <<iterator'.M, iterator'.N, iterator'.K>> = <<window'.M, window'.N, window'.K>>
              /\ <<visualizer'.M, visualizer'.N, visualizer'.K>> = <<window'.M, window'.N, window'.K>>
       /\ (generator = NoGenerator /\ generator' # NoGenerator) =>
              /\ generator' = NewGenerator
              /\ <<iterator'.M, iterator'.N, iterator'.K>> = <<window.M, window.N, window.K>>
              /\ steps' = <<>>
              /\ AllDefault(visualizer')
              /\ window'.current_cycle = 0
              /\ window'.total_macs = 0
              /\ window'.is_running
       /\ (steps = <<>> /\ steps' # <<>>) =>
              /\ generator = NewGenerator
              /\ steps' = <<RunFrom(iterator, NewGenerator)[1]>>]_vars

\* a run that had delivered active steps has been abandoned by a dimension change
C25_Witness ==
    /\ window.open
    /\ window.status = "Ready"
    /\ window.current_cycle >= 1
    /\ generator = NoGenerator
    /\ iterator = None
    /\ steps = <<>>
    /\ AllDefault(visualizer)

\* ---- C26 ----
\* C26: update_view applies the completed list to the persistent cube state
\* and then overlays the active list on a copy: afterwards a cube is done in
\* the persistent state exactly if it was done before or is in the completed
\* list, the frame shows active for the cubes of the active list (also for
\* one that is completed in the same call) and the persistent colour for the
\* others, the persistent state holds only default and done, a done cube
\* stays done in state and frame until reset_simulation, and
\* reset_simulation returns every cube to default.
C26_CompletedThenOverlay ==
    [][LET v == visualizer
           w == visualizer'
       IN /\ call'.cls = "update_view" =>
                 \A c \in ViewSpace(v) :
                     LET idx == get_volume_index(v, c)
                     IN /\ w.cube_colors_state[idx] =
                              IF c \in Elems(call'.completed)
                              THEN "done" ELSE v.cube_colors_state[idx]
                        /\ w.frame[idx] =
                              IF c \in Elems(call'.active)
                              THEN "active" ELSE w.cube_colors_state[idx]
          /\ \A idx \in DOMAIN w.cube_colors_state :
                 /\ w.cube_colors_state[idx] \in {"default", "done"}
                 /\ (v.cube_colors_state[idx] = "done" /\ call'.cls # "reset_simulation") =>
                        (w.cube_colors_state[idx] = "done" /\ w.frame[idx] \in {"done", "active"})
          /\ call'.cls = "reset_simulation" => AllDefault(w)]_vars

\* a call whose active and completed lists share a cube, made while another
\* cube was already done from an earlier call
C26_Witness ==
    /\ call.cls = "update_view"
    /\ \E c \in Elems(call.active) \cap Elems(call.completed) :
          /\ visualizer.frame[get_volume_index(visualizer, c)] = "active"
          /\ visualizer.cube_colors_state[get_volume_index(visualizer, c)] = "done"
    /\ \E d \in ViewSpace(visualizer) \ (Elems(call.completed) \cup Elems(call.active)) :
          visualizer.frame[get_volume_index(visualizer, d)] = "done"

====
